---- MODULE Spec2Model ----
(***************************************************************************)
(* Tag field managers of django-tagulous (tagulous/models/managers.py).    *)
(*                                                                         *)
(* The model holds the tag table (one record per tag: name and count),     *)
(* the persisted associations of every instance (the many-to-many rows of  *)
(* a TagField, the foreign key of a SingleTagField) and the in-memory      *)
(* state of the per-instance managers: SingleTagManager (changed,          *)
(* tag_name, tag_cache, removed_tag) and RelatedManagerTagMixin (tags,     *)
(* changed).  Every public method and signal handler is one action.        *)
(* The TagOptions objects of tagulous/models/options.py are held as their  *)
(* __dict__, and a + b is the action that takes their sum.                 *)
(***************************************************************************)
EXTENDS Integers, Sequences, FiniteSets, TLC

VARIABLES
    case_sensitive,   \* tag_options.case_sensitive
    force_lowercase,  \* tag_options.force_lowercase
    max_count,        \* tag_options.max_count (0 stands for None/unset)
    required,         \* field.required of the SingleTagField
    options,          \* the TagOptions objects a, b and r, each its __dict__
    tag_table,        \* the tag model's table: pk -> [name, count]
    m2m,              \* instance -> set of pks associated through the TagField
    actual,           \* instance -> pk held by the FK descriptor (0 is None)
    saved,            \* instance -> the instance has a row in the database
    pc,               \* instance -> "idle", or "saving" between pre_save and post_save
    changed,          \* SingleTagManager.changed
    tag_name,         \* SingleTagManager.tag_name
    tag_cache,        \* SingleTagManager.tag_cache
    removed_tag,      \* SingleTagManager.removed_tag
    tags,             \* RelatedManagerTagMixin.tags
    mchanged,         \* RelatedManagerTagMixin.changed
    last,             \* the call that made the last step, and its outcome
    hist              \* what a delete left, kept while the instance is saved again

opts   == <<case_sensitive, force_lowercase, max_count, required, options>>
dbvars == <<tag_table, m2m, actual, saved>>
svars  == <<pc, changed, tag_name, tag_cache, removed_tag>>
mvars  == <<tags, mchanged>>
vars   == <<opts, dbvars, svars, mvars, last, hist>>

-----------------------------------------------------------------------------
(* Bounds of the model *)

\* Largest number of records the tag table may hold.
MaxRecords == 2
\* Counts are kept within -MaxUnder .. MaxCount.
MaxCount == 2
MaxUnder == 1
\* Longest list of names handed to set_tag_list and set_tag_string.
MaxLen == 2
\* Largest number of objects handed to one add() or remove().
MaxArgs == 1
\* The value of max_count when the option is set.
MaxCountOption == 1

\* The instances whose managers act.
Instances == {"i1"}

\* Tag names; "A" is the only one that str.lower() changes.
Names == {"a", "A", "b"}

\* The names in Python's string order.
NameOrder == <<"A", "a", "b">>

-----------------------------------------------------------------------------
(* Values *)

\* unicode.lower()
Lower(s) == IF s = "A" THEN "a" ELSE s

\* Python's None where a tag name is expected (tag_name = None).
NoneName == "None"

\* A tag object is [name, pk]; pk = 0 is an object that was never saved.
\* NoneTag is Python's None where a tag object is expected.
NoneTag == [name |-> NoneName, pk |-> 0]

TagObj(n, p) == [name |-> n, pk |-> p]

\* Values a caller may hand to SingleTagManager.set(), add() and remove():
\* None, a string (s with q telling whether it carries double quotes, as in
\* '"a"' or '"'), or a tag object.
NoneVal   == [kind |-> "none", name |-> "", q |-> FALSE, pk |-> 0]
StrVal(s, quoted) == [kind |-> "str", name |-> s, q |-> quoted, pk |-> 0]
TagVal(t) == [kind |-> "tag", name |-> t.name, q |-> FALSE, pk |-> t.pk]

\* Python truthiness of a value: None and '' are false, everything else true.
Truthy(v) == ~(v.kind = "none" \/ (v.kind = "str" /\ v.name = "" /\ ~v.q))

\* value.replace('"', ''): the string without its quotes.
ReplaceQuotes(v) == v.name

-----------------------------------------------------------------------------
(* The tag model and its table *)

Pks == DOMAIN tag_table

\* The tag object loaded from the record pk.
Record(pk) == TagObj(tag_table[pk].name, pk)

\* tag_model.objects.get(name=n) / get(name__iexact=n): the matching pks.
\* No match raises DoesNotExist, several raise MultipleObjectsReturned.
LookupIn(table, n) ==
    IF case_sensitive
    THEN {p \in DOMAIN table : table[p].name = n}
    ELSE {p \in DOMAIN table : Lower(table[p].name) = Lower(n)}

Lookup(n) == LookupIn(tag_table, n)

\* tag_model.objects.get(name=n) of _remove, always by exact name.
LookupExact(table, n) == {p \in DOMAIN table : table[p].name = n}

\* tag_model.objects.create(name=n) / tag.save() of an unsaved tag: a new
\* record with the next primary key and a count of zero.
Created(table, n) == Append(table, [name |-> n, count |-> 0])

\* tag.increment() and tag.decrement() on the record pk.
Increment(table, pk) == [table EXCEPT ![pk].count = @ + 1]
Decrement(table, pk) == [table EXCEPT ![pk].count = @ - 1]

\* The number of persisted associations that refer to the record pk.
Usage(pk) ==
    Cardinality({i \in Instances : pk \in m2m[i]})
    + Cardinality({i \in Instances : actual[i] = pk})

CountsInBounds(table) ==
    \A p \in DOMAIN table : table[p].count \in (0 - MaxUnder) .. MaxCount

-----------------------------------------------------------------------------
(* The history the properties read *)

\* The record of a call: the method, the instance, how it ended ("ok" or the
\* exception it raised) and a short note on its argument or result.
Call(op, i, outcome, note) ==
    [op |-> op, inst |-> i, outcome |-> outcome, note |-> note]

\* No delete is being followed.
NoHist == [stage |-> "", inst |-> "i1", tag |-> 0, before |-> <<>>,
           table |-> <<>>, was_changed |-> FALSE, was_name |-> ""]

\* hist follows a post_delete_handler that found an actual tag through the
\* save that comes directly after it: the tag, the table before and after
\* the delete, and the manager's changed and tag_name before the delete.
Track ==
    hist' =
        IF last'.op = "post_delete_handler" /\ last'.note = "saved"
        THEN [stage |-> "deleted", inst |-> last'.inst,
              tag |-> actual[last'.inst], before |-> tag_table,
              table |-> tag_table', was_changed |-> changed[last'.inst],
              was_name |-> tag_name[last'.inst]]
        ELSE IF last'.op = "pre_save_handler" /\ last'.outcome = "ok"
                /\ hist.stage = "deleted" /\ hist.inst = last'.inst
        THEN [hist EXCEPT !.stage = "presaved"]
        ELSE IF last'.op = "post_save_handler"
                /\ hist.stage = "presaved" /\ hist.inst = last'.inst
        THEN [hist EXCEPT !.stage = "saved"]
        ELSE NoHist

-----------------------------------------------------------------------------
(* SingleTagManager *)

\* get_actual(): the tag the FK descriptor holds for the instance, or None.
get_actual(i) == IF actual[i] = 0 THEN NoneTag ELSE Record(actual[i])

\* A tag name is false in Python when it is None or ''.
NameFalsy(n) == n = NoneName \/ n = ""

\* get(): [outcome, ret, cache]: how the call ends, the tag it returns and
\* the tag_cache it leaves.
get_tag(i) ==
    IF changed[i]
    THEN IF NameFalsy(tag_name[i])
         THEN [outcome |-> "ok", ret |-> NoneTag, cache |-> tag_cache[i]]
         ELSE LET found == Lookup(tag_name[i]) IN
              IF Cardinality(found) > 1
              THEN [outcome |-> "MultipleObjectsReturned", ret |-> NoneTag,
                    cache |-> tag_cache[i]]
              ELSE IF found # {}
              THEN [outcome |-> "ok", ret |-> Record(CHOOSE p \in found : TRUE),
                    cache |-> tag_cache[i]]
              ELSE LET c == IF tag_cache[i] = NoneTag
                            THEN TagObj(tag_name[i], 0)
                            ELSE tag_cache[i]
                   IN [outcome |-> "ok", ret |-> c, cache |-> c]
    ELSE [outcome |-> "ok", ret |-> get_actual(i), cache |-> tag_cache[i]]

\* The null/blank check, made only when a change is pending.
fails_validation_if_changed(i, new_tag) ==
    changed[i] /\ new_tag = NoneTag /\ required

\* The null/blank check of pre_save_handler on the tag get() returned.
fails_validation(i, new_tag) == new_tag = NoneTag /\ required

\* Saving new_tag without incrementing a tag that was just created.
save_new_tag_once(table, new_tag) ==
    IF new_tag = NoneTag THEN [table |-> table, tag |-> NoneTag]
    ELSE IF new_tag.pk = 0
    THEN LET t1 == Created(table, new_tag.name)
         IN [table |-> t1, tag |-> TagObj(new_tag.name, Len(t1))]
    ELSE [table |-> Increment(table, new_tag.pk), tag |-> new_tag]

\* "Create or increment the tag object": [table, tag], the table and new_tag
\* after new_tag was saved if it had no pk, and incremented.
save_new_tag(table, new_tag) ==
    IF new_tag = NoneTag THEN [table |-> table, tag |-> NoneTag]
    ELSE IF new_tag.pk = 0
    THEN LET t1 == Created(table, new_tag.name)
         IN [table |-> Increment(t1, Len(t1)),
             tag |-> TagObj(new_tag.name, Len(t1))]
    ELSE [table |-> Increment(table, new_tag.pk), tag |-> new_tag]

\* get() that creates the record of a pending name no tag matches.
get_creating(i) ==
    LET g == get_tag(i)
        n == save_new_tag(tag_table, g.ret)
    IN
    /\ pc[i] = "idle"
    /\ IF g.outcome = "ok" /\ g.ret # NoneTag /\ g.ret.pk = 0
       THEN /\ Len(n.table) <= MaxRecords
            /\ CountsInBounds(n.table)
            /\ tag_table' = n.table
            /\ tag_cache' = [tag_cache EXCEPT ![i] = n.tag]
            /\ last' = Call("get", i, g.outcome, "saved")
       ELSE /\ tag_table' = tag_table
            /\ tag_cache' = [tag_cache EXCEPT ![i] = g.cache]
            /\ last' = Call("get", i, g.outcome,
                            IF g.ret = NoneTag THEN "none" ELSE "saved")
    /\ UNCHANGED <<opts, m2m, actual, saved, mvars, pc, changed, tag_name, removed_tag>>
    /\ Track

\* manager.get()
get(i) ==
    LET g == get_tag(i) IN
    /\ pc[i] = "idle"
    /\ tag_cache' = [tag_cache EXCEPT ![i] = g.cache]
    /\ last' = Call("get", i, g.outcome,
                    IF g.ret = NoneTag THEN "none"
                    ELSE IF g.ret.pk = 0 THEN "unsaved" ELSE "saved")
    /\ UNCHANGED <<opts, dbvars, mvars, pc, changed, tag_name, removed_tag>>
    /\ Track

\* The tag name set() derives from its value.
set_name(v) ==
    IF ~Truthy(v) THEN ""
    ELSE IF v.kind = "str"
    THEN LET s == IF force_lowercase THEN Lower(ReplaceQuotes(v))
                  ELSE ReplaceQuotes(v)
         IN IF s = "" THEN NoneName ELSE s
    ELSE v.name

\* manager.set(value)
set(i, v) ==
    LET n == set_name(v) IN
    /\ pc[i] = "idle"
    /\ IF tag_name[i] = n
       THEN UNCHANGED <<changed, tag_name, tag_cache>>
       ELSE /\ changed' = [changed EXCEPT ![i] = TRUE]
            /\ tag_name' = [tag_name EXCEPT ![i] = n]
            /\ tag_cache' = [tag_cache EXCEPT ![i] = NoneTag]
    /\ last' = Call("set", i, "ok", IF Truthy(v) THEN v.kind ELSE "empty")
    /\ UNCHANGED <<opts, dbvars, mvars, pc, removed_tag>>
    /\ Track

\* pre_save_handler()
pre_save_handler(i) ==
    LET g == get_tag(i) IN
    /\ pc[i] = "idle"
    /\ IF g.outcome # "ok"
       THEN \* the lookup of get() raised
            /\ last' = Call("pre_save_handler", i, g.outcome, "")
            /\ UNCHANGED <<dbvars, svars>>
       ELSE IF fails_validation(i, g.ret)
       THEN /\ last' = Call("pre_save_handler", i, "ValidationError", "")
            /\ tag_cache' = [tag_cache EXCEPT ![i] = g.cache]
            /\ UNCHANGED <<dbvars, pc, changed, tag_name, removed_tag>>
       ELSE IF ~changed[i]
       THEN /\ last' = Call("pre_save_handler", i, "ok", "unchanged")
            /\ pc' = [pc EXCEPT ![i] = "saving"]
            /\ tag_cache' = [tag_cache EXCEPT ![i] = g.cache]
            /\ UNCHANGED <<dbvars, changed, tag_name, removed_tag>>
       ELSE LET n == save_new_tag(tag_table, g.ret)
            IN /\ Len(n.table) <= MaxRecords
               /\ CountsInBounds(n.table)
               /\ removed_tag' = [removed_tag EXCEPT ![i] = get_actual(i)]
               /\ tag_table' = n.table
               \* an unsaved new_tag is the tag_cache object: save() gives it its pk
               /\ tag_cache' = [tag_cache EXCEPT ![i] =
                                   IF g.ret # NoneTag /\ g.ret.pk = 0
                                   THEN n.tag ELSE g.cache]
               /\ actual' = [actual EXCEPT ![i] = n.tag.pk]
               /\ changed' = [changed EXCEPT ![i] = FALSE]
               /\ pc' = [pc EXCEPT ![i] = "saving"]
               /\ last' = Call("pre_save_handler", i, "ok", "changed")
               /\ UNCHANGED <<m2m, saved, tag_name>>
    /\ UNCHANGED <<opts, mvars>>
    /\ Track

\* post_save_handler(), which the instance's save() sends after pre_save and
\* the write of the instance's row.
post_save_handler(i) ==
    /\ pc[i] = "saving"
    /\ IF removed_tag[i] # NoneTag
       THEN /\ tag_table' = Decrement(tag_table, removed_tag[i].pk)
            /\ CountsInBounds(tag_table')
       ELSE UNCHANGED tag_table
    /\ saved' = [saved EXCEPT ![i] = TRUE]
    /\ pc' = [pc EXCEPT ![i] = "idle"]
    /\ last' = Call("post_save_handler", i, "ok", "")
    /\ UNCHANGED <<opts, mvars, m2m, actual, changed, tag_name, tag_cache, removed_tag>>
    /\ Track

\* post_delete_handler() that leaves the manager unchanged.
post_delete_keeps_unchanged(i) ==
    LET old_tag == get_actual(i) IN
    /\ pc[i] = "idle"
    /\ saved[i]
    /\ saved' = [saved EXCEPT ![i] = FALSE]
    /\ IF old_tag # NoneTag
       THEN /\ tag_table' = Decrement(tag_table, old_tag.pk)
            /\ CountsInBounds(tag_table')
            /\ actual' = [actual EXCEPT ![i] = 0]
            /\ tag_cache' = [tag_cache EXCEPT ![i] = NoneTag]
            /\ UNCHANGED <<tag_name, changed>>
       ELSE UNCHANGED <<tag_table, actual, tag_name, tag_cache, changed>>
    /\ last' = Call("post_delete_handler", i, "ok",
                    IF old_tag = NoneTag THEN "none" ELSE "saved")
    /\ UNCHANGED <<opts, mvars, m2m, pc, removed_tag>>
    /\ Track

\* post_delete_handler(), sent after the instance's row was deleted.
post_delete_handler(i) ==
    LET old_tag == get_actual(i) IN
    /\ pc[i] = "idle"
    /\ saved[i]
    /\ saved' = [saved EXCEPT ![i] = FALSE]
    /\ IF old_tag # NoneTag
       THEN /\ tag_table' = Decrement(tag_table, old_tag.pk)
            /\ CountsInBounds(tag_table')
            /\ actual' = [actual EXCEPT ![i] = 0]
            /\ tag_name' = [tag_name EXCEPT ![i] =
                               IF ~changed[i] THEN old_tag.name ELSE @]
            /\ tag_cache' = [tag_cache EXCEPT ![i] = NoneTag]
            /\ changed' = [changed EXCEPT ![i] = TRUE]
       ELSE UNCHANGED <<tag_table, actual, tag_name, tag_cache, changed>>
    /\ last' = Call("post_delete_handler", i, "ok",
                    IF old_tag = NoneTag THEN "none" ELSE "saved")
    /\ UNCHANGED <<opts, mvars, m2m, pc, removed_tag>>
    /\ Track

-----------------------------------------------------------------------------
(* RelatedManagerTagMixin *)

\* Model.__eq__ as "in" uses it: two tag objects are equal when they have the
\* same primary key (one side is always a saved tag where the managers ask).
TagIn(t, seq) == \E k \in DOMAIN seq : seq[k].pk = t.pk

RECURSIVE SortedPks(_)
SortedPks(S) ==
    IF S = {} THEN <<>>
    ELSE LET m == CHOOSE x \in S : \A y \in S : x <= y
         IN <<m>> \o SortedPks(S \ {m})

\* list(self.all()): the tags associated with the instance, loaded from the
\* table in primary-key order.
all_tags(table, assoc) ==
    LET ps == SortedPks(assoc)
    IN [k \in DOMAIN ps |-> TagObj(table[ps[k]].name, ps[k])]

\* The state a manager method works on: the tag table, the instance's
\* associations, self.tags, self.changed and how the call has ended so far.
MState(i) ==
    [table |-> tag_table, assoc |-> m2m[i], tags |-> tags[i],
     changed |-> mchanged[i], outcome |-> "ok"]

\* reload()
reload(st) ==
    [st EXCEPT !.tags = all_tags(st.table, st.assoc), !.changed = FALSE]

\* _ensure_tags_db(tags): [outcome, table, db_tags].  A tag without a pk is
\* looked up by name and created when no record matches; records created
\* before a lookup raises stay in the table.
RECURSIVE ensure_tags_db(_, _)
ensure_tags_db(table, tgs) ==
    IF tgs = <<>>
    THEN [outcome |-> "ok", table |-> table, db_tags |-> <<>>]
    ELSE LET tag   == Head(tgs)
             found == LookupIn(table, tag.name)
         IN IF tag.pk # 0
            THEN LET r == ensure_tags_db(table, Tail(tgs))
                 IN [r EXCEPT !.db_tags = <<tag>> \o @]
            ELSE IF Cardinality(found) > 1
            THEN [outcome |-> "MultipleObjectsReturned", table |-> table,
                  db_tags |-> <<>>]
            ELSE IF found # {}
            THEN LET p == CHOOSE x \in found : TRUE
                     r == ensure_tags_db(table, Tail(tgs))
                 IN [r EXCEPT !.db_tags = <<TagObj(table[p].name, p)>> \o @]
            ELSE LET t2 == Created(table, tag.name)
                     r  == ensure_tags_db(t2, Tail(tgs))
                 IN [r EXCEPT !.db_tags = <<TagObj(tag.name, Len(t2))>> \o @]

RECURSIVE IncrementAll(_, _)
IncrementAll(table, tgs) ==
    IF tgs = <<>> THEN table
    ELSE IncrementAll(Increment(table, Head(tgs).pk), Tail(tgs))

RECURSIVE DecrementAll(_, _)
DecrementAll(table, tgs) ==
    IF tgs = <<>> THEN table
    ELSE DecrementAll(Decrement(table, Head(tgs).pk), Tail(tgs))

PksOf(tgs) == {tgs[k].pk : k \in DOMAIN tgs}

\* The first loop of _add: a string creates a record, a tag object is taken
\* as it is.  [table, new_tags].
RECURSIVE add_convert(_, _)
add_convert(table, objs) ==
    IF objs = <<>> THEN [table |-> table, new_tags |-> <<>>]
    ELSE LET v  == Head(objs)
             t1 == IF v.kind = "str" THEN Created(table, v.name) ELSE table
             nt == IF v.kind = "str" THEN TagObj(v.name, Len(t1))
                   ELSE TagObj(v.name, v.pk)
             r  == add_convert(t1, Tail(objs))
         IN [r EXCEPT !.new_tags = <<nt>> \o @]

\* _add(*objs) that checks max_count against the list it holds in memory.
add_trusting_cache(st, objs) ==
    LET c  == add_convert(st.table, objs)
        s1 == reload([st EXCEPT !.table = c.table])
        e  == ensure_tags_db(s1.table, c.new_tags)
    IN IF max_count # 0 /\ Len(st.tags) + Len(c.new_tags) > max_count
       THEN [s1 EXCEPT !.outcome = "ValueError"]
       ELSE IF e.outcome # "ok"
       THEN [s1 EXCEPT !.table = e.table, !.outcome = e.outcome]
       ELSE [s1 EXCEPT !.table = IncrementAll(e.table, c.new_tags),
                       !.assoc = @ \cup PksOf(e.db_tags),
                       !.tags = @ \o c.new_tags]

\* _add(*objs)
add_(st, objs) ==
    LET c  == add_convert(st.table, objs)
        s1 == reload([st EXCEPT !.table = c.table])
        e  == ensure_tags_db(s1.table, c.new_tags)
    IN IF max_count # 0 /\ Len(s1.tags) + Len(c.new_tags) > max_count
       THEN [s1 EXCEPT !.outcome = "ValueError"]
       ELSE IF e.outcome # "ok"
       THEN [s1 EXCEPT !.table = e.table, !.outcome = e.outcome]
       ELSE [s1 EXCEPT !.table = IncrementAll(e.table, c.new_tags),
                       !.assoc = @ \cup PksOf(e.db_tags),
                       !.tags = @ \o c.new_tags]

\* The first loop of _remove: a string is looked up by its exact name and
\* skipped when no record has it.  [outcome, rm_tags].
RECURSIVE remove_convert(_, _)
remove_convert(table, objs) ==
    IF objs = <<>> THEN [outcome |-> "ok", rm_tags |-> <<>>]
    ELSE LET v     == Head(objs)
             found == LookupExact(table, v.name)
             r     == remove_convert(table, Tail(objs))
         IN IF v.kind # "str"
            THEN [r EXCEPT !.rm_tags = <<TagObj(v.name, v.pk)>> \o @]
            ELSE IF Cardinality(found) > 1
            THEN [outcome |-> "MultipleObjectsReturned", rm_tags |-> <<>>]
            ELSE IF found = {} THEN r
            ELSE LET p == CHOOSE x \in found : TRUE
                 IN [r EXCEPT !.rm_tags = <<TagObj(table[p].name, p)>> \o @]

\* [tag for tag in seq if keep(tag)]
RECURSIVE Filter(_, _, _)
Filter(seq, other, keepIn) ==
    IF seq = <<>> THEN <<>>
    ELSE IF TagIn(Head(seq), other) = keepIn
         THEN <<Head(seq)>> \o Filter(Tail(seq), other, keepIn)
         ELSE Filter(Tail(seq), other, keepIn)

\* _remove(*objs)
remove_(st, objs) ==
    LET c  == remove_convert(st.table, objs)
        s1 == reload(st)
        rm == Filter(s1.tags, c.rm_tags, TRUE)
        e  == ensure_tags_db(s1.table, rm)
    IN IF c.outcome # "ok"
       THEN [st EXCEPT !.outcome = c.outcome]
       ELSE [s1 EXCEPT !.tags = Filter(s1.tags, rm, FALSE),
                       !.assoc = @ \ PksOf(e.db_tags),
                       !.table = DecrementAll(e.table, rm)]

\* _clear()
clear_(st) ==
    LET s1 == reload(st)
    IN [s1 EXCEPT !.assoc = {},
                  !.table = DecrementAll(s1.table, s1.tags),
                  !.tags = <<>>]

\* The loop of save() that adds the new tags, each through self.add().
RECURSIVE save_add(_, _, _)
save_add(st, new_tags, k) ==
    IF k > Len(new_tags) \/ st.outcome # "ok" THEN st
    ELSE IF TagIn(new_tags[k], st.tags)
         THEN save_add(st, new_tags, k + 1)
         ELSE save_add(add_(st, <<TagVal(new_tags[k])>>), new_tags, k + 1)

\* The loop of save() that removes the old tags, each through self.remove();
\* it walks the list self.tags was when the loop began.
RECURSIVE save_remove(_, _, _, _)
save_remove(st, old_tags, new_tags, k) ==
    IF k > Len(old_tags) \/ st.outcome # "ok" THEN st
    ELSE IF TagIn(old_tags[k], new_tags)
         THEN save_remove(st, old_tags, new_tags, k + 1)
         ELSE save_remove(remove_(st, <<TagVal(old_tags[k])>>),
                          old_tags, new_tags, k + 1)

\* save(force) that never removes the tags that are no longer wanted.
save_keeps_old(st, force) ==
    IF ~st.changed /\ ~force THEN st
    ELSE LET e  == ensure_tags_db(st.table, st.tags)
             s1 == reload([st EXCEPT !.table = e.table])
             s2 == save_add(s1, e.db_tags, 1)
         IN IF e.outcome # "ok"
            THEN [st EXCEPT !.table = e.table, !.outcome = e.outcome]
            ELSE IF s2.outcome # "ok" THEN s2
            ELSE [s2 EXCEPT !.tags = e.db_tags, !.changed = FALSE]

\* save(force) whose early return reloads the list from the database.
save_reloading(st, force) ==
    IF ~st.changed /\ ~force THEN reload(st)
    ELSE LET e  == ensure_tags_db(st.table, st.tags)
             s1 == reload([st EXCEPT !.table = e.table])
             s2 == save_add(s1, e.db_tags, 1)
             s3 == save_remove(s2, s2.tags, e.db_tags, 1)
         IN IF e.outcome # "ok"
            THEN [st EXCEPT !.table = e.table, !.outcome = e.outcome]
            ELSE IF s2.outcome # "ok" THEN s2
            ELSE IF s3.outcome # "ok" THEN s3
            ELSE [s3 EXCEPT !.tags = e.db_tags, !.changed = FALSE]

\* save(force)
save_(st, force) ==
    IF ~st.changed /\ ~force THEN st
    ELSE LET e  == ensure_tags_db(st.table, st.tags)
             s1 == reload([st EXCEPT !.table = e.table])
             s2 == save_add(s1, e.db_tags, 1)
             s3 == save_remove(s2, s2.tags, e.db_tags, 1)
         IN IF e.outcome # "ok"
            THEN [st EXCEPT !.table = e.table, !.outcome = e.outcome]
            ELSE IF s2.outcome # "ok" THEN s2
            ELSE IF s3.outcome # "ok" THEN s3
            ELSE [s3 EXCEPT !.tags = e.db_tags, !.changed = FALSE]

\* What a manager method leaves behind, within the bounds of the model.
Commit(i, st, op, note) ==
    /\ Len(st.table) <= MaxRecords
    /\ CountsInBounds(st.table)
    /\ tag_table' = st.table
    /\ m2m' = [m2m EXCEPT ![i] = st.assoc]
    /\ tags' = [tags EXCEPT ![i] = st.tags]
    /\ mchanged' = [mchanged EXCEPT ![i] = st.changed]
    /\ last' = Call(op, i, st.outcome, note)
    /\ UNCHANGED <<opts, actual, saved, svars, hist>>

\* manager.add(*objs), bound to _add
_add(i, objs) == Commit(i, add_(MState(i), objs), "_add", "")

\* manager.remove(*objs), bound to _remove
_remove(i, objs) == Commit(i, remove_(MState(i), objs), "_remove", "")

\* manager.clear(), bound to _clear
_clear(i) == Commit(i, clear_(MState(i)), "_clear", "")

\* manager.save(force)
save(i, force) ==
    Commit(i, save_(MState(i), force), "save",
           IF ~mchanged[i] /\ ~force THEN "noop"
           ELSE IF last.op \in {"set_tag_list", "set_tag_string"}
                   /\ last.outcome = "ok" /\ last.inst = i
                THEN "after_set" ELSE "")

\* The name two tags are compared by: the name itself, or its lowercase
\* when case_sensitive is off.
CmpName(n) == IF case_sensitive THEN n ELSE Lower(n)

\* dict([(key, x) ...]): of two entries with one key the later wins.  keys is
\* the list of the entries' keys; the index of the entry kept for the key c.
LastAt(keys, c) ==
    CHOOSE k \in DOMAIN keys :
        /\ keys[k] = c
        /\ \A j \in DOMAIN keys : keys[j] = c => j <= k

\* The orders a dict may yield a set of entries in.
Perms(S) ==
    {f \in [1 .. Cardinality(S) -> S] :
        \A j, k \in 1 .. Cardinality(S) : j # k => f[j] # f[k]}

\* The body of set_tag_list(tag_names), on self.tags and self.changed; op is
\* the name the call is recorded under.
set_tag_list_(i, tag_names, op) ==
    LET names     == [k \in DOMAIN tag_names |->
                         IF force_lowercase THEN Lower(tag_names[k])
                         ELSE tag_names[k]]
        old_cmp   == [k \in DOMAIN tags[i] |-> CmpName(tags[i][k].name)]
        new_cmp   == [k \in DOMAIN names |-> CmpName(names[k])]
        old_keys  == {old_cmp[k] : k \in DOMAIN old_cmp}
        new_keys  == {new_cmp[k] : k \in DOMAIN new_cmp}
        staying   == {tags[i][LastAt(old_cmp, c)] : c \in old_keys \cap new_keys}
        fresh     == {names[LastAt(new_cmp, c)] : c \in new_keys \ old_keys}
        removing  == old_keys \ new_keys # {}
        ambiguous == {n \in fresh : Cardinality(Lookup(n)) > 1}
        NewTag(n) == IF Lookup(n) = {} THEN TagObj(n, 0)
                     ELSE Record(CHOOSE p \in Lookup(n) : TRUE)
    IN IF max_count # 0 /\ Len(tag_names) > max_count
       THEN /\ last' = Call(op, i, "ValueError", "")
            /\ UNCHANGED mvars
       ELSE IF ambiguous # {}
       THEN \* a lookup raised; the names the loop took before it set changed
            /\ last' = Call(op, i, "MultipleObjectsReturned", "")
            /\ \E before \in BOOLEAN :
                 /\ before => fresh \ ambiguous # {}
                 /\ mchanged' = [mchanged EXCEPT ![i] = @ \/ removing \/ before]
            /\ UNCHANGED tags
       ELSE /\ \E kept \in Perms(staying), added \in Perms(fresh) :
                 tags' = [tags EXCEPT ![i] =
                             kept \o [k \in DOMAIN added |-> NewTag(added[k])]]
            /\ mchanged' = [mchanged EXCEPT ![i] = @ \/ removing \/ fresh # {}]
            /\ last' = Call(op, i, "ok", "")

\* set_tag_list that creates the record of every name it finds no tag for.
set_tag_list_creating(i, tag_names) ==
    /\ set_tag_list_(i, tag_names, "set_tag_list")
    /\ tag_table' = ensure_tags_db(tag_table, tags'[i]).table
    /\ Len(tag_table') <= MaxRecords
    /\ UNCHANGED <<opts, m2m, actual, saved, svars, hist>>

\* manager.set_tag_list(tag_names): the in-memory list changes, nothing else.
set_tag_list(i, tag_names) ==
    /\ set_tag_list_(i, tag_names, "set_tag_list")
    /\ UNCHANGED <<opts, dbvars, svars, hist>>

\* The place of a name in Python's string order.
NameRank(n) == CHOOSE k \in DOMAIN NameOrder : NameOrder[k] = n

RECURSIVE SortedNames(_)
SortedNames(S) ==
    IF S = {} THEN <<>>
    ELSE LET m == CHOOSE x \in S : \A y \in S : NameRank(x) <= NameRank(y)
         IN <<m>> \o SortedNames(S \ {m})

\* parse_tags(tag_string): a tag string is modelled by the names written in
\* it, in the order written; parsing yields each name once, sorted.
parse_tags(tag_string) ==
    SortedNames({tag_string[k] : k \in DOMAIN tag_string})

\* manager.set_tag_string(tag_string)
set_tag_string(i, tag_string) ==
    /\ set_tag_list_(i, parse_tags(tag_string), "set_tag_string")
    /\ UNCHANGED <<opts, dbvars, svars, hist>>

-----------------------------------------------------------------------------
(* TagOptions *)

\* The keys of constants.OPTION_DEFAULTS that the model follows, and the
\* default each reads as.
OPTION_DEFAULTS == {"initial", "max_count"}

\* PROPERTIES
PROPERTIES == {"initial_string"}

\* A value handed to an option: a tag string (the names written in it), a
\* list of names, or a number.
OptStr(names) == [kind |-> "str", seq |-> names, n |-> 0]
OptList(names) == [kind |-> "list", seq |-> names, n |-> 0]
OptInt(n) == [kind |-> "int", seq |-> <<>>, n |-> n]

\* The __dict__ of a TagOptions object: the keys it holds (has) and their
\* values; a key it does not hold has the value shown here.
EmptyDict ==
    [has |-> {}, initial |-> <<>>, initial_string |-> <<>>, max_count |-> 0]

\* sorted(names), with equal names kept.
RECURSIVE SortedList(_)
SortedList(seq) ==
    IF seq = <<>> THEN <<>>
    ELSE LET k == CHOOSE j \in DOMAIN seq :
                     \A m \in DOMAIN seq : NameRank(seq[j]) <= NameRank(seq[m])
             rest == [m \in 1 .. Len(seq) - 1 |->
                         IF m < k THEN seq[m] ELSE seq[m + 1]]
         IN <<seq[k]>> \o SortedList(rest)

\* render_tags(tags): the tag string of a list of names, the names sorted.
render_tags(names) == SortedList(names)

\* __setattr__(name, value): [outcome, dict].
setattr_(d, name, value) ==
    IF name = "initial"
    THEN IF value.kind = "str"
         THEN [outcome |-> "ok",
               dict |-> [d EXCEPT !.has = @ \cup {"initial", "initial_string"},
                                  !.initial_string = value.seq,
                                  !.initial = parse_tags(value.seq)]]
         ELSE [outcome |-> "ok",
               dict |-> [d EXCEPT !.has = @ \cup {"initial", "initial_string"},
                                  !.initial_string = render_tags(value.seq),
                                  !.initial = value.seq]]
    ELSE IF name \in OPTION_DEFAULTS
    THEN [outcome |-> "ok",
          dict |-> [d EXCEPT !.has = @ \cup {name},
                             !.max_count = value.n]]
    ELSE [outcome |-> "AttributeError", dict |-> d]

\* The value the key name has in the dict, as a value handed to an option.
DictValue(d, name) ==
    IF name = "initial" THEN OptList(d.initial)
    ELSE IF name = "initial_string" THEN OptStr(d.initial_string)
    ELSE OptInt(d.max_count)

\* __getattr__(name): [outcome, value].
getattr_(d, name) ==
    IF name \in PROPERTIES
    THEN IF name \in d.has
         THEN [outcome |-> "ok", value |-> DictValue(d, name)]
         ELSE [outcome |-> "KeyError", value |-> OptInt(0)]
    ELSE IF name \notin OPTION_DEFAULTS
    THEN [outcome |-> "AttributeError", value |-> OptInt(0)]
    ELSE [outcome |-> "ok", value |-> DictValue(d, name)]

\* items(with_defaults=False): the pairs of __dict__ whose key is an option,
\* as a function from the keys to the values.
items(d) ==
    [name \in d.has \cap OPTION_DEFAULTS |-> DictValue(d, name)]

\* dct.update(other)
update(dct, other) ==
    [name \in DOMAIN dct \cup DOMAIN other |->
        IF name \in DOMAIN other THEN other[name] ELSE dct[name]]

\* TagOptions(**kwargs): setattr for every key; the keys differ, so the
\* order the dict yields them in does not matter.  [outcome, dict].
RECURSIVE init_(_, _)
init_(d, kwargs) ==
    IF DOMAIN kwargs = {} THEN [outcome |-> "ok", dict |-> d]
    ELSE LET name == CHOOSE k \in DOMAIN kwargs : TRUE
             r    == setattr_(d, name, kwargs[name])
             rest == [k \in DOMAIN kwargs \ {name} |-> kwargs[k]]
         IN IF r.outcome # "ok" THEN r ELSE init_(r.dict, rest)

\* __add__ in which the options of self override those of the other object.
add_options_reversed(self, other) ==
    init_(EmptyDict, update(items(other), items(self))).dict

\* __add__(options): the __dict__ of the new TagOptions object.
add_options(self, other) ==
    init_(EmptyDict, update(items(self), items(other))).dict

\* The objects before any is built.
NoOptions == [a |-> EmptyDict, b |-> EmptyDict, r |-> EmptyDict]

\* x + y for two of the objects, the sum kept as r; the call is recorded
\* with the left operand in the place of the instance and the right operand
\* as its note.
__add__(x, y) ==
    /\ options' = [options EXCEPT !.r = add_options(options[x], options[y])]
    /\ last' = Call("__add__", x, "ok", y)
    /\ UNCHANGED <<case_sensitive, force_lowercase, max_count, required,
                   dbvars, svars, mvars, hist>>

-----------------------------------------------------------------------------
(* BaseTagManager *)

\* get_tag_list(): the names of the tags in self.tags, in list order.
get_tag_list(i) == [k \in DOMAIN tags[i] |-> tags[i][k].name]

\* The result of __eq__(other).  other is the string form of the value, given
\* by the names written in it; it is lowercased before it is parsed when
\* force_lowercase is on or case_sensitive is off.
eq_(i, other) ==
    LET lower      == force_lowercase \/ ~case_sensitive
        other_str  == [k \in DOMAIN other |->
                          IF lower THEN Lower(other[k]) ELSE other[k]]
        other_tags == parse_tags(other_str)
        self_tags  == get_tag_list(i)
    IN IF Len(other_tags) # Len(self_tags) THEN FALSE
       ELSE \A k \in DOMAIN self_tags :
                LET tag == IF lower THEN Lower(self_tags[k]) ELSE self_tags[k]
                IN \E j \in DOMAIN other_tags : other_tags[j] = tag

\* The result of __ne__(other).
ne_(i, other) == ~eq_(i, other)

\* A comparison reads the manager and changes nothing; its result is noted.
Compare(i, op, result) ==
    /\ last' = Call(op, i, "ok", IF result THEN "True" ELSE "False")
    /\ UNCHANGED <<opts, dbvars, svars, mvars, hist>>

\* manager == other
__eq__(i, other) == Compare(i, "__eq__", eq_(i, other))

\* manager != other
__ne__(i, other) == Compare(i, "__ne__", ne_(i, other))

-----------------------------------------------------------------------------
(* Initial states *)

RECURSIVE TableOf(_, _)
TableOf(S, k) ==
    IF k > Len(NameOrder) THEN <<>>
    ELSE IF NameOrder[k] \in S
         THEN <<[name |-> NameOrder[k], count |-> 0]>> \o TableOf(S, k + 1)
         ELSE TableOf(S, k + 1)

\* No two records of equal name, equal ignoring case when case_sensitive is off.
UniqueNames(table, cs) ==
    \A p, r \in DOMAIN table :
        p # r => IF cs THEN table[p].name # table[r].name
                 ELSE Lower(table[p].name) # Lower(table[r].name)

WithCounts(table, assoc, fk) ==
    [p \in DOMAIN table |->
        [name |-> table[p].name,
         count |-> Cardinality({i \in Instances : p \in assoc[i]})
                   + Cardinality({i \in Instances : fk[i] = p})]]

NoCall == Call("init", "i1", "ok", "")

\* SingleTagManager.__init__ on every instance, over a consistent database.
InitSingle ==
    /\ case_sensitive \in BOOLEAN
    /\ force_lowercase \in BOOLEAN
    /\ required \in BOOLEAN
    /\ max_count = 0
    /\ \E S \in SUBSET Names :
         LET t == TableOf(S, 1) IN
         /\ Len(t) <= MaxRecords
         /\ UniqueNames(t, case_sensitive)
         /\ actual \in [Instances -> {0} \cup DOMAIN t]
         /\ m2m = [i \in Instances |-> {}]
         /\ tag_table = WithCounts(t, m2m, actual)
         /\ CountsInBounds(tag_table)
    /\ saved = [i \in Instances |-> actual[i] # 0]
    /\ pc = [i \in Instances |-> "idle"]
    /\ changed = [i \in Instances |-> FALSE]
    /\ tag_cache = [i \in Instances |-> get_actual(i)]
    /\ tag_name = [i \in Instances |-> tag_cache[i].name]
    /\ removed_tag = [i \in Instances |-> NoneTag]
    /\ tags = [i \in Instances |-> <<>>]
    /\ mchanged = [i \in Instances |-> FALSE]
    /\ options = NoOptions
    /\ last = NoCall
    /\ hist = NoHist

\* The values handed to set().
SetValues ==
    {NoneVal}
    \cup {StrVal(s, quoted) : s \in Names \cup {""}, quoted \in BOOLEAN}
    \cup {TagVal(Record(p)) : p \in Pks}
    \cup {TagVal(TagObj(n, 0)) : n \in Names}

NextSingle ==
    \E i \in Instances :
        \/ \E v \in SetValues : set(i, v)
        \/ get(i)
        \/ pre_save_handler(i)
        \/ post_save_handler(i)
        \/ post_delete_handler(i)

SpecSingle == InitSingle /\ [][NextSingle]_vars

\* RelatedManagerTagMixin.__init_tagulous__ on every instance, over a
\* consistent database.
InitMulti ==
    /\ case_sensitive \in BOOLEAN
    /\ force_lowercase \in BOOLEAN
    /\ required = FALSE
    /\ max_count \in {0, MaxCountOption}
    /\ \E S \in SUBSET Names :
         LET t == TableOf(S, 1) IN
         /\ Len(t) <= MaxRecords
         /\ UniqueNames(t, case_sensitive)
         /\ m2m \in [Instances -> SUBSET DOMAIN t]
         /\ \A i \in Instances :
                max_count # 0 => Cardinality(m2m[i]) <= max_count
         /\ actual = [i \in Instances |-> 0]
         /\ tag_table = WithCounts(t, m2m, actual)
         /\ CountsInBounds(tag_table)
    /\ saved = [i \in Instances |-> FALSE]
    /\ pc = [i \in Instances |-> "idle"]
    /\ changed = [i \in Instances |-> FALSE]
    /\ tag_cache = [i \in Instances |-> NoneTag]
    /\ tag_name = [i \in Instances |-> NoneName]
    /\ removed_tag = [i \in Instances |-> NoneTag]
    /\ tags = [i \in Instances |-> all_tags(tag_table, m2m[i])]
    /\ mchanged = [i \in Instances |-> FALSE]
    /\ options = NoOptions
    /\ last = NoCall
    /\ hist = NoHist

\* Sequences over S of length lo .. hi.
SeqsOf(S, lo, hi) == UNION {[1 .. n -> S] : n \in lo .. hi}

\* The objects handed to add() and remove(): names and saved tags.
TagArgs ==
    {StrVal(n, FALSE) : n \in Names} \cup {TagVal(Record(p)) : p \in Pks}

NextMulti ==
    \E i \in Instances :
        \/ \E names \in SeqsOf(Names, 0, MaxLen) : set_tag_list(i, names)
        \/ \E names \in SeqsOf(Names, 0, MaxLen) : set_tag_string(i, names)
        \/ \E force \in BOOLEAN : save(i, force)
        \/ \E objs \in SeqsOf(TagArgs, 1, MaxArgs) : _add(i, objs)
        \/ \E objs \in SeqsOf(TagArgs, 1, MaxArgs) : _remove(i, objs)
        \/ _clear(i)

SpecMulti == InitMulti /\ [][NextMulti]_vars

\* The multi-tag manager compared with values while its list is changed
\* through set_tag_list, add, remove and clear.
NextEq ==
    \E i \in Instances :
        \/ \E names \in SeqsOf(Names, 0, MaxLen) : set_tag_list(i, names)
        \/ \E objs \in SeqsOf(TagArgs, 1, MaxArgs) : _add(i, objs)
        \/ \E objs \in SeqsOf(TagArgs, 1, MaxArgs) : _remove(i, objs)
        \/ _clear(i)
        \/ \E other \in SeqsOf(Names, 0, MaxLen) : __eq__(i, other)
        \/ \E other \in SeqsOf(Names, 0, MaxLen) : __ne__(i, other)

SpecEq == InitMulti /\ [][NextEq]_vars

\* The values given to the option initial and to the option max_count.
\* A tag string is parsed, so 'b a' and 'a a' are stored as other lists than
\* they are written; a list is stored as it is and rendered to a string.
InitialValues ==
    {OptStr(<<>>), OptStr(<<"b", "a">>), OptStr(<<"a", "a">>), OptStr(<<"b">>),
     OptList(<<>>), OptList(<<"b", "a">>), OptList(<<"a">>)}

CountValues == {OptInt(0), OptInt(MaxCountOption)}

\* The keyword arguments TagOptions() is built with.
Kwargs ==
    {kw \in UNION {[K -> InitialValues \cup CountValues] :
                      K \in SUBSET OPTION_DEFAULTS} :
        \A k \in DOMAIN kw : (k = "initial") <=> (kw[k].kind # "int")}

\* The names of the TagOptions objects.
OptionObjects == {"a", "b", "r"}

\* TagOptions.__init__ for the objects a and b; no sum was taken yet.
InitOptions ==
    /\ case_sensitive = FALSE
    /\ force_lowercase = FALSE
    /\ required = FALSE
    /\ max_count = 0
    /\ \E ka, kb \in Kwargs :
         options = [a |-> init_(EmptyDict, ka).dict,
                    b |-> init_(EmptyDict, kb).dict,
                    r |-> EmptyDict]
    /\ tag_table = <<>>
    /\ m2m = [i \in Instances |-> {}]
    /\ actual = [i \in Instances |-> 0]
    /\ saved = [i \in Instances |-> FALSE]
    /\ pc = [i \in Instances |-> "idle"]
    /\ changed = [i \in Instances |-> FALSE]
    /\ tag_cache = [i \in Instances |-> NoneTag]
    /\ tag_name = [i \in Instances |-> NoneName]
    /\ removed_tag = [i \in Instances |-> NoneTag]
    /\ tags = [i \in Instances |-> <<>>]
    /\ mchanged = [i \in Instances |-> FALSE]
    /\ last = NoCall
    /\ hist = NoHist

NextOptions == \E x, y \in OptionObjects : __add__(x, y)

SpecOptions == InitOptions /\ [][NextOptions]_vars

-----------------------------------------------------------------------------
(* Properties *)

\* Every tag's count is the number of persisted associations with it.
CountsConsistent == \A p \in Pks : tag_table[p].count = Usage(p)

\* C1: with the multi-tag manager, after every completed set_tag_list, save,
\* add, remove or clear, every tag's count equals the number of instances
\* whose persisted tag set contains the tag.
C1_CountsMatchAssociations ==
    last.outcome = "ok" => CountsConsistent

\* C2: with the single-tag manager, whenever no save is under way, every
\* tag's count equals the number of instances whose actual tag it is.
C2_CountsMatchActualTags ==
    (\A i \in Instances : pc[i] = "idle") => CountsConsistent

\* C3: a save() that returns after a pending change or with force leaves the
\* persisted tag set equal to the tags that were in memory (an unsaved tag
\* replaced by the record of its name), the in-memory list holding exactly
\* those records, all of them in the table, and changed False.
C3_SaveCommitsTheList ==
    [][\A i \in Instances :
        (last'.op = "save" /\ last'.inst = i /\ last'.outcome = "ok"
            /\ last'.note # "noop")
        => /\ mchanged'[i] = FALSE
           /\ m2m'[i] = PksOf(tags'[i])
           /\ Len(tags'[i]) = Len(tags[i])
           /\ \A k \in DOMAIN tags'[i] :
                /\ tags'[i][k].pk \in DOMAIN tag_table'
                /\ tag_table'[tags'[i][k].pk].name = tags'[i][k].name
                /\ IF tags[i][k].pk # 0
                   THEN tags'[i][k] = tags[i][k]
                   ELSE CmpName(tags'[i][k].name) = CmpName(tags[i][k].name)
    ]_vars

\* A save right after set_tag_list committed a list that replaced a tag.
C3_Witness ==
    /\ last.op = "save" /\ last.outcome = "ok" /\ last.note = "after_set"
    /\ \E i \in Instances : m2m[i] # {} /\ Len(tags[i]) > 0
    /\ \E p \in Pks : \A i \in Instances : p \notin m2m[i]

\* C4: with max_count set, the save() that follows an accepted set_tag_list
\* does not raise ValueError.
C4_AcceptedListSaves ==
    ~(last.op = "save" /\ last.note = "after_set" /\ last.outcome = "ValueError")

\* C5: set_tag_list and set_tag_string write nothing to the database: no
\* record is created, no association and no count changes; a tag they put
\* in the list for a name without a record is an unsaved object (no pk),
\* and one for a name with a record is that record.
C5_SetTagListOnlyPending ==
    [][\A i \in Instances :
        (last'.op \in {"set_tag_list", "set_tag_string"} /\ last'.inst = i)
        => /\ tag_table' = tag_table
           /\ m2m' = m2m
           /\ actual' = actual
           /\ last'.outcome = "ok" =>
                \A k \in DOMAIN tags'[i] :
                    LET t == tags'[i][k] IN
                    \/ \E j \in DOMAIN tags[i] : tags[i][j] = t
                    \/ Lookup(t.name) = {} /\ t.pk = 0
                    \/ t.pk \in Lookup(t.name) /\ t = Record(t.pk)
    ]_vars

\* set_tag_list left an unsaved tag in the list, its name in no record.
C5_Witness ==
    /\ last.op = "set_tag_list" /\ last.outcome = "ok"
    /\ \E k \in DOMAIN tags[last.inst] :
         /\ tags[last.inst][k].pk = 0
         /\ Lookup(tags[last.inst][k].name) = {}

\* C6: set() and get() of the single-tag manager write nothing: no record is
\* created, the actual tag and every count stay; get() on a pending name
\* that matches no record returns an unsaved tag object carrying that name.
C6_SetAndGetNeverWrite ==
    [][\A i \in Instances :
        (last'.op \in {"set", "get"} /\ last'.inst = i)
        => /\ tag_table' = tag_table
           /\ actual' = actual
           /\ m2m' = m2m
           /\ (last'.op = "get" /\ changed[i] /\ ~NameFalsy(tag_name[i])
                  /\ Lookup(tag_name[i]) = {})
              => /\ last'.outcome = "ok"
                 /\ last'.note = "unsaved"
                 /\ tag_cache'[i] = TagObj(tag_name[i], 0)
    ]_vars

\* get() returned an unsaved tag for a pending name that is in no record.
C6_Witness ==
    /\ last.op = "get" /\ last.note = "unsaved"
    /\ changed[last.inst]
    /\ tag_cache[last.inst].pk = 0
    /\ Lookup(tag_name[last.inst]) = {}

\* C7: a pre_save_handler that returns normally with a change pending
\* leaves the actual tag the tag of the pending name (None for an empty
\* name), that tag in the table with its count one higher and every other
\* count as it was, removed_tag the tag that was actual, and changed False.
C7_PreSaveSetsActual ==
    [][\A i \in Instances :
        (last'.op = "pre_save_handler" /\ last'.inst = i
            /\ last'.outcome = "ok" /\ changed[i])
        => /\ changed'[i] = FALSE
           /\ removed_tag'[i] = get_actual(i)
           /\ \A p \in DOMAIN tag_table :
                p \in DOMAIN tag_table' /\ tag_table'[p].name = tag_table[p].name
           /\ IF NameFalsy(tag_name[i])
              THEN actual'[i] = 0 /\ tag_table' = tag_table
              ELSE /\ actual'[i] \in DOMAIN tag_table'
                   /\ CmpName(tag_table'[actual'[i]].name) = CmpName(tag_name[i])
                   /\ Len(tag_table') <= Len(tag_table) + 1
                   /\ \A p \in DOMAIN tag_table' :
                        tag_table'[p].count =
                            (IF p \in DOMAIN tag_table THEN tag_table[p].count ELSE 0)
                            + (IF p = actual'[i] THEN 1 ELSE 0)
    ]_vars

\* pre_save_handler saved a tag that had no record and replaced another.
C7_Witness ==
    /\ last.op = "pre_save_handler" /\ last.outcome = "ok" /\ last.note = "changed"
    /\ removed_tag[last.inst] # NoneTag
    /\ actual[last.inst] # 0
    /\ actual[last.inst] # removed_tag[last.inst].pk
    /\ tag_cache[last.inst].pk = actual[last.inst]

\* C8: on a required field whose current tag is None, pre_save_handler raises
\* ValidationError, with or without a pending change, and changes nothing.
C8_RequiredRaisesAndKeeps ==
    [][\A i \in Instances :
        (last'.op = "pre_save_handler" /\ last'.inst = i /\ required
            /\ get_tag(i).outcome = "ok" /\ get_tag(i).ret = NoneTag)
        => /\ last'.outcome = "ValidationError"
           /\ UNCHANGED <<dbvars, svars>>
    ]_vars

\* pre_save_handler raised ValidationError over a pending empty value.
C8_Witness ==
    /\ last.op = "pre_save_handler" /\ last.outcome = "ValidationError"
    /\ changed[last.inst]
    /\ actual[last.inst] # 0

\* The name the save after a delete is to store: the value that was pending
\* before the delete, or else the name of the tag the delete found.
NameAfterDelete ==
    IF hist.was_changed THEN hist.was_name ELSE hist.before[hist.tag].name

Denotes(i, v) ==
    \/ v.kind = "str" /\ ~v.q /\ v.name # "" /\ v.name = tag_name[i]
    \/ v.kind = "tag" /\ v.name = tag_name[i]
    \/ ~Truthy(v) /\ get_tag(i).outcome = "ok" /\ get_tag(i).ret = NoneTag

\* C10: set() with a value that denotes what the manager holds leaves
\* changed, tag_name and tag_cache as they were.
C10_SetSameValueIsNoOp ==
    [][\A i \in Instances : \A v \in SetValues :
        (set(i, v) /\ Denotes(i, v))
        => UNCHANGED <<changed, tag_name, tag_cache>>
    ]_vars

\* What save() without force leaves when called again right after itself.
SaveTwice(i) ==
    LET once == save_(MState(i), FALSE)
    IN save_([once EXCEPT !.outcome = "ok"], FALSE)

\* C11: save() with changed False and force False creates no record, adds
\* and removes no association, changes no count and leaves the in-memory
\* list and changed as they were; and in every state a second save() right
\* after a save() leaves the database, the list and changed as the first did.
C11_SaveUnchangedIsNoOp ==
    /\ [][\A i \in Instances :
            (last'.op = "save" /\ last'.inst = i /\ last'.note = "noop")
            => /\ ~mchanged[i]
               /\ last'.outcome = "ok"
               /\ UNCHANGED <<dbvars, mvars>>
        ]_vars
    /\ [](\A i \in Instances :
            LET once  == save_(MState(i), FALSE)
                twice == SaveTwice(i)
            IN /\ twice.table = once.table
               /\ twice.assoc = once.assoc
               /\ twice.tags = once.tags
               /\ twice.changed = once.changed)

\* save() returned early on a list that holds more entries than the
\* instance has associations (a tag was added twice).
C11_Witness ==
    /\ last.op = "save" /\ last.note = "noop" /\ last.outcome = "ok"
    /\ ~mchanged[last.inst]
    /\ m2m[last.inst] # {}
    /\ Len(tags[last.inst]) > Cardinality(m2m[last.inst])

\* C12: with max_count set, after every call of set_tag_list, set_tag_string,
\* save, add, remove and clear, whether it returned or raised, the in-memory
\* list and the persisted tag set of the instance hold at most max_count tags.
C12_MaxCountBoundsBoth ==
    max_count # 0 =>
        \A i \in Instances :
            /\ Len(tags[i]) <= max_count
            /\ Cardinality(m2m[i]) <= max_count

\* add() raised ValueError on an instance that holds max_count tags.
C12_Witness ==
    /\ max_count # 0
    /\ last.op = "_add" /\ last.outcome = "ValueError"
    /\ Cardinality(m2m[last.inst]) = max_count
    /\ Len(tags[last.inst]) = max_count

\* The names of a list as they are compared: in lowercase when
\* force_lowercase is on or case_sensitive is off.
ComparedNames(seq) ==
    {IF force_lowercase \/ ~case_sensitive THEN Lower(seq[k]) ELSE seq[k] :
        k \in DOMAIN seq}

\* C13: manager == other is True exactly when the names parsed from other
\* and the names of the in-memory list are the same set (in lowercase when
\* force_lowercase is on or case_sensitive is off), and manager != other is
\* its negation.
C13_EqComparesNameSets ==
    \A i \in Instances : \A other \in SeqsOf(Names, 0, MaxLen) :
        /\ eq_(i, other)
            <=> ComparedNames(parse_tags(other)) = ComparedNames(get_tag_list(i))
        /\ ne_(i, other) <=> ~eq_(i, other)

\* The options explicitly set on self + other, as the claim gives them: the
\* value of other where other has the option set, else the value of self.
Overridden(self, other) ==
    [name \in DOMAIN items(self) \cup DOMAIN items(other) |->
        IF name \in DOMAIN items(other) THEN items(other)[name]
        ELSE items(self)[name]]

\* C14: x + y is a new TagOptions whose explicitly set options are those of
\* y, and those of x that y does not set, every other option left unset so
\* that it reads as its default; x and y are not modified; + is associative
\* and an empty TagOptions on either side leaves the explicitly set options
\* as they are.
C14_AddOverrides ==
    /\ [][\A x, y \in OptionObjects :
            (last'.op = "__add__" /\ last'.inst = x /\ last'.note = y)
            => /\ items(options'.r) = Overridden(options[x], options[y])
               /\ \A name \in OPTION_DEFAULTS \ DOMAIN items(options'.r) :
                    getattr_(options'.r, name) = getattr_(EmptyDict, name)
               /\ options'.a = options.a
               /\ options'.b = options.b
        ]_vars
    /\ [](\A x, y, z \in OptionObjects :
            LET ox == options[x]
                oy == options[y]
                oz == options[z]
            IN /\ items(add_options(add_options(ox, oy), oz))
                    = items(add_options(ox, add_options(oy, oz)))
               /\ items(add_options(ox, EmptyDict)) = items(ox)
               /\ items(add_options(EmptyDict, ox)) = items(ox))

\* a + b was taken where both set initial to different lists and only a
\* sets max_count: the sum has the list of b and the max_count of a.
C14_Witness ==
    /\ last.op = "__add__" /\ last.inst = "a" /\ last.note = "b"
    /\ options.a.has = {"initial", "initial_string", "max_count"}
    /\ options.b.has = {"initial", "initial_string"}
    /\ options.a.initial # options.b.initial
    /\ options.r.initial = options.b.initial
    /\ options.r.max_count = options.a.max_count
    /\ options.a.max_count # 0

\* C15: no two records of the tag table have the same name, the same
\* ignoring case when case_sensitive is off: no call creates a record for a
\* name that a record already has.
C15_TagNamesStayUnique == UniqueNames(tag_table, case_sensitive)

\* The tag t is an entry of the list seq.
InList(t, seq) == \E j \in DOMAIN seq : seq[j] = t

\* The names a list of new names is compared by: lowercased when
\* force_lowercase is on, and in lowercase when case_sensitive is off.
NewKeys(names) ==
    {CmpName(IF force_lowercase THEN Lower(names[k]) ELSE names[k]) :
        k \in DOMAIN names}

\* C16: a set_tag_list that returns keeps every tag of the list whose
\* compared name is among the new names as the same tag object; it sets
\* changed when a tag of the list is dropped or a new name matches no tag of
\* the list and leaves changed as it was otherwise; the new list has
\* exactly one tag for every distinct compared name of the new names.
C16_SetTagListKeepsAndFlags ==
    [][\A i \in Instances : \A names \in SeqsOf(Names, 0, MaxLen) :
        (set_tag_list(i, names) /\ last'.outcome = "ok")
        => LET old       == tags[i]
               new       == tags'[i]
               dropped   == \E k \in DOMAIN old : ~InList(old[k], new)
               unmatched == \E c \in NewKeys(names) : \A k \in DOMAIN old :
                                CmpName(old[k].name) # c
           IN /\ \A k \in DOMAIN old :
                    CmpName(old[k].name) \in NewKeys(names) => InList(old[k], new)
              /\ mchanged'[i] = (mchanged[i] \/ dropped \/ unmatched)
              /\ Len(new) = Cardinality(NewKeys(names))
              /\ {CmpName(new[k].name) : k \in DOMAIN new} = NewKeys(names)
    ]_vars

====
